---- MODULE Spec2Model ----
(***************************************************************************)
(* VectorDBService (src/server/services/vector_db_service.py): the cache   *)
(* of loaded vector stores (vector_stores), the per-document directories   *)
(* under vector_store_dir, and the operations that build, persist, load,   *)
(* search and delete a document's FAISS store.                             *)
(*                                                                         *)
(* File names are sequences of characters, so that Path(file_name).stem is *)
(* computed and not assumed.  A text is a run of len characters without    *)
(* any of the splitter's separators; a chunk is the interval of the text   *)
(* it covers.  A FAISS object is the pair of what save_local writes: the   *)
(* vectors of the flat index (index.faiss) and the documents of the        *)
(* docstore in ordinal order (index.pkl).                                  *)
(***************************************************************************)
EXTENDS Integers, Sequences, FiniteSets, TLC

\* ---------------------------------------------------------------- bounds
\* Texts have 0 .. MaxTextUnits * chunk_size characters.
MaxTextUnits == 2

\* The configured upload limit in bytes (MAX_FILE_SIZE of config.settings):
\* here a limit that an upload passes with its third read.
MAX_FILE_SIZE == 20000

\* ------------------------------------------------------ program constants
chunk_size == 1000
chunk_overlap == 200
DefaultTopK == 5
\* upload_file.read(8192) of save_uploaded_file_streaming
ReadSize == 8192

\* ----------------------------------------------------------------- inputs
A_pdf == <<"a", ".", "p", "d", "f">>
A_PDF == <<"a", ".", "P", "D", "F">>

\* Two names of one document identifier: both pass the upload routes'
\* filename.lower().endswith('.pdf') and have the same stem.
FileNames == {A_pdf, A_PDF}

Texts == {[id |-> u, len |-> u * chunk_size] : u \in 0 .. MaxTextUnits}

\* metadata=None, or a caller's mapping as the upload route passes one with
\* each document; which of the two goes with a text is fixed by the text.
NoMeta == <<>>
UserMeta == [k \in {"display_name"} |-> <<"d">>]
MetasOf(text) == IF text.id % 2 = 1 THEN {UserMeta} ELSE {NoMeta}

\* ------------------------------------------------------- Path(name).stem
Max(S) == CHOOSE x \in S : \A y \in S : y <= x

LastIndexOf(s, c) ==
    LET I == {i \in 1 .. Len(s) : s[i] = c} IN IF I = {} THEN 0 ELSE Max(I)

PathName(s) == SubSeq(s, LastIndexOf(s, "/") + 1, Len(s))

Stem(file_name) ==
    LET n == PathName(file_name)
        i == LastIndexOf(n, ".")
    IN IF 1 < i /\ i < Len(n) THEN SubSeq(n, 1, i - 1) ELSE n

Stems == {Stem(n) : n \in FileNames}

\* ----------------------------------------- text_splitter.split_text(text)
\* Character-level splitting (the "" separator): a chunk closes at
\* chunk_size characters and the next one starts chunk_overlap before its end.
RECURSIVE SplitFrom(_, _)
SplitFrom(text, from) ==
    IF text.len - from <= chunk_size
    THEN <<[id |-> text.id, from |-> from, to |-> text.len]>>
    ELSE <<[id |-> text.id, from |-> from, to |-> from + chunk_size]>>
         \o SplitFrom(text, from + chunk_size - chunk_overlap)

split_text(text) == IF text.len = 0 THEN <<>> ELSE SplitFrom(text, 0)

\* -------------------------------------------------------------- documents
Update(base, m) ==
    [k \in DOMAIN base \cup DOMAIN m |-> IF k \in DOMAIN m THEN m[k] ELSE base[k]]

MakeDocuments(chunks, file_name, metadata) ==
    [i \in 1 .. Len(chunks) |->
        LET doc_metadata == [source |-> file_name,
                             chunk_index |-> i - 1,
                             total_chunks |-> Len(chunks)]
        IN [page_content |-> chunks[i],
            metadata |-> IF metadata # <<>> THEN Update(doc_metadata, metadata)
                         ELSE doc_metadata]]

\* ------------------------------------------------------------- embeddings
Embed(chunk) == <<chunk.id, chunk.from, chunk.to>>

\* FAISS.from_documents: one vector per document; the flat index is sized by
\* the first embedding, so an empty document list raises.
CanBuild(documents) == Len(documents) > 0

FromDocuments(documents) ==
    [index |-> [i \in 1 .. Len(documents) |-> Embed(documents[i].page_content)],
     docs |-> documents]

\* ------------------------------------------------------------------ files
Missing == [st |-> "missing", data |-> <<>>]
Corrupt == [st |-> "corrupt", data |-> <<>>]
File(data) == [st |-> "ok", data |-> data]

EmptyDir == [faiss |-> Missing, pkl |-> Missing]

\* A directory is named by its path below vector_store_dir, and Root is
\* vector_store_dir itself: os.path.join(vector_store_dir, "") of an empty
\* safe_name.  __init__ makes the directory (os.makedirs, exist_ok).
Root == <<>>
NoDirectories == <<>>
makedirs(d) == [s \in DOMAIN d \cup {Root} |-> IF s \in DOMAIN d THEN d[s] ELSE EmptyDir]
FreshDisk == makedirs(NoDirectories)


\* A query is embedded like a chunk: the text it quotes.
Queries == {[id |-> 1, from |-> 0, to |-> chunk_size],
            [id |-> 2, from |-> chunk_size - chunk_overlap, to |-> 2 * chunk_size]}
TopKs == {1, DefaultTopK}

\* What a build can hit: nothing, the embedding provider failing, or an
\* OSError in save_local, at mkdir or while writing index.pkl.
Faults == {"none", "embedding", "mkdir", "pkl"}

\* --------------------------------------------------- save_vector_store
\* FAISS.save_local: mkdir(parents, exist_ok), write index.faiss, then open
\* index.pkl for writing and pickle the docstore into it.
\* (mutation of save_vector_store: the directory is named by the whole file
\* name, extension included)
save_under_file_name(d, file_name, vector_store, fault) ==
    LET new == [faiss |-> File(vector_store.index),
                pkl |-> IF fault = "pkl" THEN Corrupt ELSE File(vector_store.docs)]
    IN IF fault = "mkdir" THEN d
       ELSE [s \in DOMAIN d \cup {Root, file_name} |->
               IF s = file_name THEN new ELSE makedirs(d)[s]]

save_vector_store(d, file_name, vector_store, fault) ==
    LET safe_name == Stem(file_name)
        new == [faiss |-> File(vector_store.index),
                pkl |-> IF fault = "pkl" THEN Corrupt ELSE File(vector_store.docs)]
    IN IF fault = "mkdir" THEN d
       ELSE [s \in DOMAIN d \cup {Root, safe_name} |->
               IF s = safe_name THEN new ELSE makedirs(d)[s]]

\* self.vector_stores = {} of __init__
EmptyCache == <<>>

\* ------------------------------------------ create_vector_store_from_text
CachePut(vs, file_name, vector_store) ==
    [n \in DOMAIN vs \cup {file_name} |-> IF n = file_name THEN vector_store ELSE vs[n]]

\* (mutation of create_vector_store_from_text: a failed embedding call drops
\* the entry the cache held for the name)
create_dropping_on_failure(vs, d, text, file_name, metadata, fault) ==
    LET documents == MakeDocuments(split_text(text), file_name, metadata)
        vector_store == FromDocuments(documents)
    IN IF fault = "embedding"
       THEN [vs |-> [n \in DOMAIN vs \ {file_name} |-> vs[n]], disk |-> d,
             kind |-> "embedding_error"]
       ELSE IF ~CanBuild(documents) THEN [vs |-> vs, disk |-> d, kind |-> "index_error"]
       ELSE [vs |-> CachePut(vs, file_name, vector_store),
             disk |-> save_vector_store(d, file_name, vector_store, fault),
             kind |-> IF fault = "none" THEN "ok" ELSE "save_error"]

create_vector_store_from_text(vs, d, text, file_name, metadata, fault) ==
    LET documents == MakeDocuments(split_text(text), file_name, metadata)
        vector_store == FromDocuments(documents)
    IN IF fault = "embedding" THEN [vs |-> vs, disk |-> d, kind |-> "embedding_error"]
       ELSE IF ~CanBuild(documents) THEN [vs |-> vs, disk |-> d, kind |-> "index_error"]
       ELSE [vs |-> CachePut(vs, file_name, vector_store),
             disk |-> save_vector_store(d, file_name, vector_store, fault),
             kind |-> IF fault = "none" THEN "ok" ELSE "save_error"]

\* ---------------------------------------------------- load_vector_store
None == [none |-> TRUE, store |-> <<>>]
Some(vector_store) == [none |-> FALSE, store |-> vector_store]

\* FAISS.load_local: read index.faiss, then unpickle index.pkl.
CanLoad(dir) == dir.faiss.st = "ok" /\ dir.pkl.st = "ok"
load_local(dir) == [index |-> dir.faiss.data, docs |-> dir.pkl.data]

load_vector_store(vs, d, file_name) ==
    LET safe_name == Stem(file_name) IN
    IF file_name \in DOMAIN vs
    THEN [vs |-> vs, disk |-> d, kind |-> "cached", ret |-> Some(vs[file_name])]
    ELSE IF safe_name \notin DOMAIN d
    THEN [vs |-> vs, disk |-> d, kind |-> "absent", ret |-> None]
    ELSE IF ~CanLoad(d[safe_name])
    THEN [vs |-> vs, disk |-> d, kind |-> "load_exception", ret |-> None]
    ELSE [vs |-> CachePut(vs, file_name, load_local(d[safe_name])), disk |-> d,
          kind |-> "loaded", ret |-> Some(load_local(d[safe_name]))]

\* --------------------------------------------------------------- search
RECURSIVE SumSq(_, _, _)
SumSq(a, b, i) == IF i = 0 THEN 0 ELSE (a[i] - b[i]) * (a[i] - b[i]) + SumSq(a, b, i - 1)
Distance(a, b) == SumSq(a, b, Len(a))

Min(x, y) == IF x <= y THEN x ELSE y

\* IndexFlatL2.search: the k nearest ordinals by ascending distance.
IndexSearch(index, q, k) ==
    LET n == Len(index)
        dist(i) == Distance(index[i], q)
        Before(i, j) == dist(i) < dist(j) \/ (dist(i) = dist(j) /\ i < j)
        Rank(i) == Cardinality({j \in 1 .. n : Before(j, i)}) + 1
    IN [p \in 1 .. Min(k, n) |->
          LET i == CHOOSE i \in 1 .. n : Rank(i) = p
          IN [ordinal |-> i, score |-> dist(i)]]

\* similarity_search_with_score then the formatting loop; index.search
\* asserts k > 0, and an ordinal with no document in the docstore raises.
\* Neither is caught, and both come after the load and its cache write.
search(vs, d, query, file_name, top_k) ==
    LET ld == load_vector_store(vs, d, file_name)
        vector_store == ld.ret.store
        hits == IndexSearch(vector_store.index, Embed(query), top_k)
    IN IF ld.ret.none
       THEN [vs |-> ld.vs, disk |-> ld.disk, kind |-> "no_store", ret |-> <<>>]
       ELSE IF top_k <= 0
       THEN [vs |-> ld.vs, disk |-> ld.disk, kind |-> "assertion_error", ret |-> <<>>]
       ELSE IF \E p \in DOMAIN hits : hits[p].ordinal > Len(vector_store.docs)
       THEN [vs |-> ld.vs, disk |-> ld.disk, kind |-> "docstore_error", ret |-> <<>>]
       ELSE [vs |-> ld.vs, disk |-> ld.disk, kind |-> "ok",
             ret |-> [p \in DOMAIN hits |->
                        [text |-> vector_store.docs[hits[p].ordinal].page_content,
                         metadata |-> vector_store.docs[hits[p].ordinal].metadata,
                         score |-> hits[p].score]]]

\* -------------------------------------------------- delete_vector_store
Without(f, k) == [x \in DOMAIN f \ {k} |-> f[x]]

\* shutil.rmtree(path): the directory and all that is below it.
rmtree(d, path) == IF path = Root THEN NoDirectories ELSE Without(d, path)

\* (mutation of delete_vector_store: lines 238-239, the cache entry, forgotten)
delete_disk_only(vs, d, file_name) ==
    LET safe_name == Stem(file_name)
    IN IF safe_name \in DOMAIN d
       THEN [vs |-> vs, disk |-> rmtree(d, safe_name), ret |-> TRUE]
       ELSE [vs |-> vs, disk |-> d, ret |-> FALSE]

\* (mutation of delete_vector_store: line 247, the rmtree, forgotten)
delete_cache_only(vs, d, file_name) ==
    LET safe_name == Stem(file_name)
        vs1 == IF file_name \in DOMAIN vs THEN Without(vs, file_name) ELSE vs
    IN [vs |-> vs1, disk |-> d, ret |-> safe_name \in DOMAIN d]

\* One caller at a time: rmtree of a directory that exists removes it, so
\* the except branch (lines 253-255) is only reached when calls overlap
\* (DeleteCacheDel, RmtreeScan, RmtreeUnlink, RmtreeRmdir below).
delete_vector_store(vs, d, file_name) ==
    LET safe_name == Stem(file_name)
        vs1 == IF file_name \in DOMAIN vs THEN Without(vs, file_name) ELSE vs
    IN IF safe_name \in DOMAIN d
       THEN [vs |-> vs1, disk |-> rmtree(d, safe_name), ret |-> TRUE]
       ELSE [vs |-> vs1, disk |-> d, ret |-> FALSE]

\* ---------------------------------- list_vector_stores, get_store_info
list_vector_stores(d) == DOMAIN d \ {Root}

get_store_info(vs, d, file_name) ==
    LET ld == load_vector_store(vs, d, file_name) IN
    IF ld.ret.none
    THEN [vs |-> ld.vs, disk |-> ld.disk, none |-> TRUE, info |-> <<>>]
    ELSE [vs |-> ld.vs, disk |-> ld.disk, none |-> FALSE,
          info |-> [file_name |-> file_name,
                    total_chunks |-> Len(ld.ret.store.index),
                    embedding_dimension |-> Len(ld.ret.store.index[1])]]

\* ------------------------------------------------- routes/pdf_routes.py
\* filename.lower().endswith('.pdf')
UpperCase == <<"A", "B", "C", "D", "E", "F", "G", "H", "I", "J", "K", "L", "M",
               "N", "O", "P", "Q", "R", "S", "T", "U", "V", "W", "X", "Y", "Z">>
LowerCase == <<"a", "b", "c", "d", "e", "f", "g", "h", "i", "j", "k", "l", "m",
               "n", "o", "p", "q", "r", "s", "t", "u", "v", "w", "x", "y", "z">>

LowerChar(c) ==
    IF \E i \in DOMAIN UpperCase : UpperCase[i] = c
    THEN LowerCase[CHOOSE i \in DOMAIN UpperCase : UpperCase[i] = c]
    ELSE c

Lower(s) == [i \in 1 .. Len(s) |-> LowerChar(s[i])]

EndsWith(s, suffix) ==
    /\ Len(suffix) <= Len(s)
    /\ SubSeq(s, Len(s) - Len(suffix) + 1, Len(s)) = suffix

IsPdf(filename) == EndsWith(Lower(filename), <<".", "p", "d", "f">>)

A_txt == <<"a", ".", "t", "x", "t">>
UploadNames == {A_PDF, A_txt}

\* Sizes of the uploaded bodies: empty, within the limit, at the limit, one
\* byte over it, and more than a read over it.
Bodies == {0, ReadSize, MAX_FILE_SIZE, MAX_FILE_SIZE + 1, MAX_FILE_SIZE + ReadSize + 1}

Endpoints == {"upload", "extract-text", "extract-preview", "extract-structured",
              "extract-by-pages"}

\* The metadata upload_pdf_file passes with the text of the file.
RouteMeta(filename) == [gemini_file_uri |-> <<"u">>, display_name |-> filename]

\* UPLOAD_DIR: file name -> bytes in the file.
NoFiles == <<>>
WriteFile(dir, filename, size) ==
    [n \in DOMAIN dir \cup {filename} |-> IF n = filename THEN size ELSE dir[n]]
RemoveIfExists(dir, filename) == [n \in DOMAIN dir \ {filename} |-> dir[n]]

\* A request to an upload endpoint: the bytes of the body read so far, the
\* helper's file_size, the bytes it has written, the status of the
\* HTTPException the helper raised (0: none) and the status of the response.
NoRequest == [endpoint |-> "", pc |-> "idle", filename |-> <<>>, body |-> 0,
              read |-> 0, file_size |-> 0, written |-> 0, raised |-> 0,
              status |-> 0, vector_db |-> "none"]

\* ------------------------------------------------------------------ state
\* vector_stores: file name -> FAISS object (the cache, self.vector_stores)
\* disk:          directory (Root, or a name under it) -> its two index files
\* last:          the call that ended last and how it ended
\* calls:         thread -> the call it is in and how far that call has got
\*                (all idle when calls are made one at a time)
\* upload_dir:    the files of UPLOAD_DIR
\* request:       the upload request being answered, or the last one answered
VARIABLES vector_stores, disk, last, calls, upload_dir, request

vars == <<vector_stores, disk, last, calls, upload_dir, request>>

Threads == {1, 2}

Idle == [op |-> "idle", pc |-> "idle", name |-> <<>>, text |-> <<>>, metadata |-> <<>>,
         store |-> <<>>, scan |-> {}, kind |-> "", ret |-> <<>>]

Call(op, name, kind) == [op |-> op, name |-> name, kind |-> kind]

\* __init__: an empty cache over whatever vector_store_dir holds.
Init ==
    /\ vector_stores = EmptyCache
    /\ disk = FreshDisk
    /\ last = Call("init", <<>>, "ok")
    /\ calls = [t \in Threads |-> Idle]
    /\ upload_dir = NoFiles
    /\ request = NoRequest

Create(file_name, text, metadata, fault) ==
    LET r == create_vector_store_from_text(vector_stores, disk, text, file_name,
                                           metadata, fault)
    IN /\ vector_stores' = r.vs
       /\ disk' = r.disk
       /\ last' = Call("create", file_name, r.kind)
       /\ UNCHANGED <<calls, upload_dir, request>>

Load(file_name) ==
    LET r == load_vector_store(vector_stores, disk, file_name)
    IN /\ vector_stores' = r.vs
       /\ disk' = r.disk
       /\ last' = Call("load", file_name, r.kind)
       /\ UNCHANGED <<calls, upload_dir, request>>

Search(query, file_name, top_k) ==
    LET r == search(vector_stores, disk, query, file_name, top_k)
    IN /\ vector_stores' = r.vs
       /\ disk' = r.disk
       /\ last' = Call("search", file_name, r.kind)
       /\ UNCHANGED <<calls, upload_dir, request>>

Delete(file_name) ==
    LET r == delete_vector_store(vector_stores, disk, file_name)
    IN /\ vector_stores' = r.vs
       /\ disk' = r.disk
       /\ last' = Call("delete", file_name, IF r.ret THEN "true" ELSE "false")
       /\ UNCHANGED <<calls, upload_dir, request>>

GetStoreInfo(file_name) ==
    LET r == get_store_info(vector_stores, disk, file_name)
    IN /\ vector_stores' = r.vs
       /\ disk' = r.disk
       /\ last' = Call("info", file_name, IF r.none THEN "none" ELSE "ok")
       /\ UNCHANGED <<calls, upload_dir, request>>

ListVectorStores ==
    /\ last' = Call("list", <<>>, "ok")
    /\ UNCHANGED <<vector_stores, disk, calls, upload_dir, request>>

\* A new process: __init__ again, the directories as they were left.
Restart ==
    /\ vector_stores' = EmptyCache
    /\ disk' = makedirs(disk)
    /\ last' = Call("init", <<>>, "ok")
    /\ UNCHANGED <<calls, upload_dir, request>>

\* The environment: a store's file is damaged, or its directory is removed
\* from vector_store_dir by hand.
CorruptFile(safe_name, which) ==
    /\ safe_name \in DOMAIN disk
    /\ disk' = [disk EXCEPT ![safe_name] =
                  IF which = "faiss" THEN [@ EXCEPT !.faiss = Corrupt]
                  ELSE [@ EXCEPT !.pkl = Corrupt]]
    /\ last' = Call("corrupt", safe_name, which)
    /\ UNCHANGED <<vector_stores, calls, upload_dir, request>>

RemoveDirectory(safe_name) ==
    /\ safe_name \in DOMAIN disk
    /\ disk' = Without(disk, safe_name)
    /\ last' = Call("rmdir", safe_name, "ok")
    /\ UNCHANGED <<vector_stores, calls, upload_dir, request>>

\* Calls made one at a time, each running to its end, while the embedding
\* provider answers and the file system does as it is asked.
Next ==
    \/ \E n \in FileNames, t \in Texts : \E m \in MetasOf(t) : Create(n, t, m, "none")
    \/ \E n \in FileNames : Load(n)
    \/ \E q \in Queries, n \in FileNames, k \in TopKs : Search(q, n, k)
    \/ \E n \in FileNames : Delete(n)
    \/ \E n \in FileNames : GetStoreInfo(n)
    \/ ListVectorStores
    \/ Restart
    \/ \E s \in Stems : RemoveDirectory(s)

Spec == Init /\ [][Next]_vars

\* The same calls where a build may also hit a fault and a file of a store
\* may get damaged.
FaultNext ==
    \/ \E n \in FileNames, t \in Texts, f \in Faults :
          \E m \in MetasOf(t) : Create(n, t, m, f)
    \/ \E n \in FileNames : Load(n)
    \/ \E q \in Queries, n \in FileNames, k \in TopKs : Search(q, n, k)
    \/ \E n \in FileNames : Delete(n)
    \/ \E n \in FileNames : GetStoreInfo(n)
    \/ ListVectorStores
    \/ Restart
    \/ \E s \in Stems, w \in {"faiss", "pkl"} : CorruptFile(s, w)
    \/ \E s \in Stems : RemoveDirectory(s)

FaultSpec == Init /\ [][FaultNext]_vars

\* Calls with arguments no caller should pass: file_name "" and a top_k
\* that is not positive.  No method looks at either before it acts.
EmptyName == <<>>
InvalidNames == {EmptyName, A_pdf}
NonPositiveTopKs == {-1, 0}

InvalidNext ==
    \/ \E n \in InvalidNames, t \in Texts : \E m \in MetasOf(t) : Create(n, t, m, "none")
    \/ \E n \in InvalidNames : Load(n)
    \/ \E q \in Queries, n \in InvalidNames, k \in TopKs \cup NonPositiveTopKs :
          Search(q, n, k)
    \/ \E n \in InvalidNames : Delete(n)
    \/ ListVectorStores
    \/ Restart

InvalidSpec == Init /\ [][InvalidNext]_vars

\* Builds with any mapping a caller may pass as metadata, the keys the
\* method sets itself among them.
IndexMeta == [k \in {"chunk_index"} |-> 7]
SourceMeta == [k \in {"source"} |-> <<"x">>]
BuildMetas == {NoMeta, UserMeta, IndexMeta, SourceMeta}

BuildNext ==
    \/ \E n \in FileNames, t \in Texts, m \in BuildMetas : Create(n, t, m, "none")
    \/ Restart

BuildSpec == Init /\ [][BuildNext]_vars

\* One process making only create, load and delete calls, where a build
\* may hit a fault and nothing else touches the directories.
CallsNext ==
    \/ \E n \in FileNames, t \in Texts, f \in Faults :
          \E m \in MetasOf(t) : Create(n, t, m, f)
    \/ \E n \in FileNames : Load(n)
    \/ \E n \in FileNames : Delete(n)

CallsSpec == Init /\ [][CallsNext]_vars

\* ------------------------------------------------------ upload endpoints
\* One request at a time; a step is what the handler does between two
\* awaits.
\* The endpoint checks the file name (lines 75-79) and enters its try block.
Receive(endpoint, filename, body) ==
    /\ request.pc \in {"idle", "responded"}
    /\ request' = IF IsPdf(filename)
                  THEN [NoRequest EXCEPT !.endpoint = endpoint, !.filename = filename,
                                         !.body = body, !.pc = "open"]
                  ELSE [NoRequest EXCEPT !.endpoint = endpoint, !.filename = filename,
                                         !.body = body, !.pc = "responded",
                                         !.status = 400]
    /\ UNCHANGED <<vector_stores, disk, last, calls, upload_dir>>

\* save_uploaded_file_streaming, line 39: open(dest_path, "wb")
OpenFile ==
    /\ request.pc = "open"
    /\ upload_dir' = WriteFile(upload_dir, request.filename, 0)
    /\ request' = [request EXCEPT !.pc = "read"]
    /\ UNCHANGED <<vector_stores, disk, last, calls>>

\* One turn of the loop of lines 40-48: read, count, compare, then either
\* remove the file and raise HTTPException(400) or write the chunk.
ReadChunk ==
    /\ request.pc = "read"
    /\ LET chunk == Min(ReadSize, request.body - request.read)
           file_size == request.file_size + chunk
       IN IF chunk = 0
          THEN /\ request' = [request EXCEPT !.pc = "saved"]
               /\ UNCHANGED upload_dir
          ELSE IF file_size > MAX_FILE_SIZE
          THEN /\ upload_dir' = RemoveIfExists(upload_dir, request.filename)
               /\ request' = [request EXCEPT !.read = @ + chunk, !.file_size = file_size,
                                             !.raised = 400, !.pc = "raised"]
          ELSE /\ upload_dir' = WriteFile(upload_dir, request.filename,
                                          upload_dir[request.filename] + chunk)
               /\ request' = [request EXCEPT !.read = @ + chunk, !.file_size = file_size,
                                             !.written = @ + chunk]
    /\ UNCHANGED <<vector_stores, disk, last, calls>>

\* Lines 52-58: reading or writing fails; the file is removed and
\* HTTPException(500) raised.
SaveFails ==
    /\ request.pc = "read"
    /\ upload_dir' = RemoveIfExists(upload_dir, request.filename)
    /\ request' = [request EXCEPT !.raised = 500, !.pc = "raised"]
    /\ UNCHANGED <<vector_stores, disk, last, calls>>

\* The endpoint's "except Exception" around the helper's call: lines 131-139
\* of upload_pdf_file, and lines 189-198 of extract_text_from_pdf with its
\* finally, as in the other three.  HTTPException is an Exception, so the
\* one the helper raised is caught here and a new one with status 500 raised.
HandleRaised ==
    /\ request.pc = "raised"
    /\ upload_dir' = RemoveIfExists(upload_dir, request.filename)
    /\ request' = [request EXCEPT !.status = 500, !.pc = "responded"]
    /\ UNCHANGED <<vector_stores, disk, last, calls>>

\* The extract endpoints after the file is saved: the loader's calls succeed
\* or raise, and finally the file is removed.
Extract(loader_ok) ==
    /\ request.pc = "saved"
    /\ request.endpoint # "upload"
    /\ upload_dir' = RemoveIfExists(upload_dir, request.filename)
    /\ request' = [request EXCEPT !.status = IF loader_ok THEN 200 ELSE 500,
                                  !.pc = "responded"]
    /\ UNCHANGED <<vector_stores, disk, last, calls>>

\* upload_pdf_file after the file is saved, lines 89-129: the loader's calls,
\* then the store is built from the text of the file; a failure in there is
\* reported in vector_db_info and the upload still succeeds.
UploadAndIndex(loader_ok, text, fault) ==
    /\ request.pc = "saved"
    /\ request.endpoint = "upload"
    /\ IF ~loader_ok
       THEN /\ upload_dir' = RemoveIfExists(upload_dir, request.filename)
            /\ request' = [request EXCEPT !.status = 500, !.pc = "responded"]
            /\ UNCHANGED <<vector_stores, disk, last>>
       ELSE IF fault = "extract"
       THEN /\ request' = [request EXCEPT !.status = 200, !.pc = "responded",
                                          !.vector_db = "failed"]
            /\ UNCHANGED <<vector_stores, disk, last, upload_dir>>
       ELSE LET r == create_vector_store_from_text(vector_stores, disk, text,
                                                   request.filename,
                                                   RouteMeta(request.filename), fault)
            IN /\ vector_stores' = r.vs
               /\ disk' = r.disk
               /\ last' = Call("create", request.filename, r.kind)
               /\ request' = [request EXCEPT !.status = 200, !.pc = "responded",
                                             !.vector_db = IF r.kind = "ok" THEN "created"
                                                           ELSE "failed"]
               /\ UNCHANGED upload_dir
    /\ UNCHANGED calls

UploadNext ==
    \/ \E e \in Endpoints, n \in UploadNames, b \in Bodies : Receive(e, n, b)
    \/ OpenFile
    \/ ReadChunk
    \/ SaveFails
    \/ HandleRaised
    \/ \E ok \in BOOLEAN : Extract(ok)
    \/ \E ok \in BOOLEAN, t \in Texts, f \in Faults \cup {"extract"} :
          UploadAndIndex(ok, t, f)

UploadSpec == Init /\ [][UploadNext]_vars

\* ------------------------------------------------------ concurrent calls
\* Two threads of one process share vector_stores and the directories; each
\* makes one call, and a call advances one read or write of the shared cache
\* or of a file at a time.
CanStart(t) == calls[t].pc = "idle"
At(t, op, pc) == calls[t].op = op /\ calls[t].pc = pc
Goto(t, c) == calls' = [calls EXCEPT ![t] = c]
Finish(c, kind, ret) == [c EXCEPT !.pc = "done", !.kind = kind, !.ret = ret]
Done(t, op) == calls[t].op = op /\ calls[t].pc = "done"

\* The stores a run starts from: none, one built and cached, or one built by
\* an earlier process and only on disk.
BuiltBefore ==
    create_vector_store_from_text(EmptyCache, FreshDisk, [id |-> 1, len |-> chunk_size], A_pdf,
                                  UserMeta, "none")

ConcInit ==
    /\ \E c \in {EmptyCache, BuiltBefore.vs}, d \in {FreshDisk, BuiltBefore.disk} :
          /\ c # EmptyCache => d # FreshDisk
          /\ vector_stores = c
          /\ disk = d
    /\ last = Call("init", <<>>, "ok")
    /\ calls = [t \in Threads |-> Idle]
    /\ upload_dir = NoFiles
    /\ request = NoRequest

BeginCreate(t, file_name, text, metadata) ==
    /\ CanStart(t)
    /\ Goto(t, [Idle EXCEPT !.op = "create", !.pc = "build", !.name = file_name,
                            !.text = text, !.metadata = metadata])
    /\ UNCHANGED <<vector_stores, disk, last, upload_dir, request>>

BeginLoad(t, file_name) ==
    /\ CanStart(t)
    /\ Goto(t, [Idle EXCEPT !.op = "load", !.pc = "check_cache", !.name = file_name])
    /\ UNCHANGED <<vector_stores, disk, last, upload_dir, request>>

BeginDelete(t, file_name) ==
    /\ CanStart(t)
    /\ Goto(t, [Idle EXCEPT !.op = "delete", !.pc = "check_cache", !.name = file_name])
    /\ UNCHANGED <<vector_stores, disk, last, upload_dir, request>>

\* create_vector_store_from_text, lines 84-108
CreateBuild(t) ==
    /\ At(t, "create", "build")
    /\ LET c == calls[t]
           documents == MakeDocuments(split_text(c.text), c.name, c.metadata)
       IN IF CanBuild(documents)
          THEN Goto(t, [c EXCEPT !.pc = "cache_put", !.store = FromDocuments(documents)])
          ELSE Goto(t, Finish(c, "index_error", <<>>))
    /\ UNCHANGED <<vector_stores, disk, last, upload_dir, request>>

\* line 112
CreateCachePut(t) ==
    /\ At(t, "create", "cache_put")
    /\ vector_stores' = CachePut(vector_stores, calls[t].name, calls[t].store)
    /\ Goto(t, [calls[t] EXCEPT !.pc = "mkdir"])
    /\ UNCHANGED <<disk, last, upload_dir, request>>

\* save_local: mkdir(parents=True, exist_ok=True)
SaveMkdir(t) ==
    /\ At(t, "create", "mkdir")
    /\ LET safe_name == Stem(calls[t].name)
       IN disk' = [s \in DOMAIN disk \cup {Root, safe_name} |->
                     IF s \in DOMAIN disk THEN disk[s] ELSE EmptyDir]
    /\ Goto(t, [calls[t] EXCEPT !.pc = "write_faiss"])
    /\ UNCHANGED <<vector_stores, last, upload_dir, request>>

\* save_local: one file is written; the directory may be gone by now.
SaveWrite(t, which, then) ==
    /\ At(t, "create", "write_" \o which)
    /\ LET c == calls[t]
           safe_name == Stem(c.name)
           data == IF which = "faiss" THEN c.store.index ELSE c.store.docs
       IN IF safe_name \notin DOMAIN disk
          THEN /\ Goto(t, Finish(c, "save_error", <<>>))
               /\ UNCHANGED disk
          ELSE /\ disk' = [disk EXCEPT ![safe_name][which] = File(data)]
               /\ Goto(t, IF then = "done" THEN Finish(c, "ok", <<>>)
                          ELSE [c EXCEPT !.pc = then])
    /\ UNCHANGED <<vector_stores, last, upload_dir, request>>

SaveWriteFaiss(t) == SaveWrite(t, "faiss", "write_pkl")
SaveWritePkl(t) == SaveWrite(t, "pkl", "done")

\* load_vector_store, lines 151-153
LoadCheckCache(t) ==
    /\ At(t, "load", "check_cache")
    /\ LET c == calls[t]
       IN IF c.name \in DOMAIN vector_stores
          THEN Goto(t, Finish(c, "cached", Some(vector_stores[c.name])))
          ELSE Goto(t, [c EXCEPT !.pc = "check_exists"])
    /\ UNCHANGED <<vector_stores, disk, last, upload_dir, request>>

\* lines 159-161
LoadCheckExists(t) ==
    /\ At(t, "load", "check_exists")
    /\ LET c == calls[t]
       IN IF Stem(c.name) \notin DOMAIN disk
          THEN Goto(t, Finish(c, "absent", None))
          ELSE Goto(t, [c EXCEPT !.pc = "read_faiss"])
    /\ UNCHANGED <<vector_stores, disk, last, upload_dir, request>>

\* load_local reads one file; a file that is gone or damaged raises, and
\* lines 177-179 turn that into None.
LoadRead(t, which, then) ==
    /\ At(t, "load", "read_" \o which)
    /\ LET c == calls[t]
           safe_name == Stem(c.name)
       IN IF safe_name \notin DOMAIN disk \/ disk[safe_name][which].st # "ok"
          THEN Goto(t, Finish(c, "load_exception", None))
          ELSE Goto(t, [c EXCEPT !.pc = then,
                                 !.store = IF which = "faiss"
                                           THEN [index |-> disk[safe_name].faiss.data,
                                                 docs |-> <<>>]
                                           ELSE [index |-> c.store.index,
                                                 docs |-> disk[safe_name].pkl.data]])
    /\ UNCHANGED <<vector_stores, disk, last, upload_dir, request>>

LoadReadFaiss(t) == LoadRead(t, "faiss", "read_pkl")
LoadReadPkl(t) == LoadRead(t, "pkl", "cache_put")

\* lines 172-175
LoadCachePut(t) ==
    /\ At(t, "load", "cache_put")
    /\ vector_stores' = CachePut(vector_stores, calls[t].name, calls[t].store)
    /\ Goto(t, Finish(calls[t], "loaded", Some(calls[t].store)))
    /\ UNCHANGED <<disk, last, upload_dir, request>>

\* delete_vector_store, line 238
DeleteCheckCache(t) ==
    /\ At(t, "delete", "check_cache")
    /\ Goto(t, [calls[t] EXCEPT !.pc = IF calls[t].name \in DOMAIN vector_stores
                                       THEN "cache_del" ELSE "check_exists"])
    /\ UNCHANGED <<vector_stores, disk, last, upload_dir, request>>

\* line 239; a key deleted in between is a KeyError, caught at line 253
DeleteCacheDel(t) ==
    /\ At(t, "delete", "cache_del")
    /\ LET c == calls[t]
       IN IF c.name \in DOMAIN vector_stores
          THEN /\ vector_stores' = Without(vector_stores, c.name)
               /\ Goto(t, [c EXCEPT !.pc = "check_exists"])
          ELSE /\ Goto(t, Finish(c, "exception", FALSE))
               /\ UNCHANGED vector_stores
    /\ UNCHANGED <<disk, last, upload_dir, request>>

\* line 245
DeleteCheckExists(t) ==
    /\ At(t, "delete", "check_exists")
    /\ LET c == calls[t]
       IN IF Stem(c.name) \in DOMAIN disk
          THEN Goto(t, [c EXCEPT !.pc = "scan"])
          ELSE Goto(t, Finish(c, "ok", FALSE))
    /\ UNCHANGED <<vector_stores, disk, last, upload_dir, request>>

\* shutil.rmtree, line 247: list the directory, unlink each entry, rmdir.
\* Any OSError on the way is caught at line 253.
RmtreeScan(t) ==
    /\ At(t, "delete", "scan")
    /\ LET c == calls[t]
           safe_name == Stem(c.name)
       IN IF safe_name \notin DOMAIN disk
          THEN Goto(t, Finish(c, "exception", FALSE))
          ELSE Goto(t, [c EXCEPT !.pc = "unlink",
                                 !.scan = {f \in {"faiss", "pkl"} :
                                             disk[safe_name][f].st # "missing"}])
    /\ UNCHANGED <<vector_stores, disk, last, upload_dir, request>>

RmtreeUnlink(t) ==
    /\ At(t, "delete", "unlink")
    /\ \E f \in calls[t].scan :
          LET c == calls[t]
              safe_name == Stem(c.name)
          IN IF safe_name \notin DOMAIN disk \/ disk[safe_name][f].st = "missing"
             THEN /\ Goto(t, Finish(c, "exception", FALSE))
                  /\ UNCHANGED disk
             ELSE /\ disk' = [disk EXCEPT ![safe_name][f] = Missing]
                  /\ Goto(t, [c EXCEPT !.scan = @ \ {f}])
    /\ UNCHANGED <<vector_stores, last, upload_dir, request>>

RmtreeRmdir(t) ==
    /\ At(t, "delete", "unlink")
    /\ calls[t].scan = {}
    /\ LET c == calls[t]
           safe_name == Stem(c.name)
       IN IF safe_name \in DOMAIN disk /\ disk[safe_name] = EmptyDir
          THEN /\ disk' = Without(disk, safe_name)
               /\ Goto(t, Finish(c, "ok", TRUE))
          ELSE /\ Goto(t, Finish(c, "exception", FALSE))
               /\ UNCHANGED disk
    /\ UNCHANGED <<vector_stores, last, upload_dir, request>>

ConcNext ==
    \E t \in Threads :
       \/ \E n \in FileNames, x \in Texts : \E m \in MetasOf(x) : BeginCreate(t, n, x, m)
       \/ \E n \in FileNames : BeginLoad(t, n)
       \/ \E n \in FileNames : BeginDelete(t, n)
       \/ CreateBuild(t) \/ CreateCachePut(t) \/ SaveMkdir(t)
       \/ SaveWriteFaiss(t) \/ SaveWritePkl(t)
       \/ LoadCheckCache(t) \/ LoadCheckExists(t) \/ LoadReadFaiss(t)
       \/ LoadReadPkl(t) \/ LoadCachePut(t)
       \/ DeleteCheckCache(t) \/ DeleteCacheDel(t) \/ DeleteCheckExists(t)
       \/ RmtreeScan(t) \/ RmtreeUnlink(t) \/ RmtreeRmdir(t)

ConcSpec == ConcInit /\ [][ConcNext]_vars

\* ================================================================ claims

\* C1: a build whose embedding call fails ends in an error and leaves the
\* cache and the directories exactly as they were before the call.
C1_EmbeddingFailureLeavesNoTrace ==
    [][(last'.op = "create" /\ last'.kind = "embedding_error")
         => (vector_stores' = vector_stores /\ disk' = disk)]_vars

\* C1 witness: the embedding call failed for a name that has a record in the
\* cache and on disk.
C1_Witness ==
    /\ last.op = "create" /\ last.kind = "embedding_error"
    /\ last.name \in DOMAIN vector_stores
    /\ Stem(last.name) \in DOMAIN disk
    /\ CanLoad(disk[Stem(last.name)])

SearchResults(vs, d, file_name) ==
    [q \in Queries, k \in TopKs |-> search(vs, d, q, file_name, k).ret]

\* C2: after a successful build, a service with an empty cache loads for
\* the same name a record with the chunk texts, the metadata and the search
\* results of the one that was built, and has it in its cache afterwards.
C2_RoundTrip ==
    (last.op = "create" /\ last.kind = "ok") =>
        LET built == vector_stores[last.name]
            ld == load_vector_store(EmptyCache, disk, last.name)
        IN /\ ~ld.ret.none
           /\ ld.ret.store.docs = built.docs
           /\ SearchResults(ld.vs, ld.disk, last.name)
                = SearchResults(vector_stores, disk, last.name)
           /\ last.name \in DOMAIN ld.vs
           /\ ld.vs[last.name] = ld.ret.store

\* C2 witness: a record of several chunks was read back from disk into a
\* cache that held nothing else.
C2_Witness ==
    /\ last.op = "load" /\ last.kind = "loaded"
    /\ DOMAIN vector_stores = {last.name}
    /\ Len(vector_stores[last.name].docs) > 1

\* C3 (as claimed): two builds of one file name with different content have
\* both finished; then one of the two built records is the one in the cache
\* and also the one on disk.
C3_OneBuildObservable ==
    \A t1, t2 \in Threads :
       (/\ t1 # t2
        /\ Done(t1, "create") /\ Done(t2, "create")
        /\ calls[t1].kind = "ok" /\ calls[t2].kind = "ok"
        /\ calls[t1].name = calls[t2].name
        /\ calls[t1].store # calls[t2].store)
       => \E t \in {t1, t2} :
             LET n == calls[t].name IN
             /\ n \in DOMAIN vector_stores
             /\ vector_stores[n] = calls[t].store
             /\ Stem(n) \in DOMAIN disk
             /\ CanLoad(disk[Stem(n)])
             /\ load_local(disk[Stem(n)]) = calls[t].store

\* C4 (as claimed): a load and a delete of one file name have both finished;
\* then the load returned the record as it was before the delete or nothing,
\* and no cache entry for the name is left over a directory that is gone.
C4_LoadDeleteRace ==
    \A l, r \in Threads :
       (/\ Done(l, "load") /\ Done(r, "delete")
        /\ calls[l].name = calls[r].name)
       => /\ calls[l].ret.none \/ calls[l].ret.store = BuiltBefore.vs[A_pdf]
          /\ ~(calls[l].name \in DOMAIN vector_stores
               /\ Stem(calls[l].name) \notin DOMAIN disk)

\* C5 (as claimed): after a successful build under one name, loading under
\* any name of the same stem returns the record just built.
C5_LatestIngestionWins ==
    (last.op = "create" /\ last.kind = "ok") =>
        \A n \in FileNames :
           Stem(n) = Stem(last.name) =>
              /\ load_vector_store(vector_stores, disk, n).ret
                   = Some(vector_stores[last.name])
              /\ SearchResults(vector_stores, disk, n)
                   = SearchResults(vector_stores, disk, last.name)

C7_DeleteReportsRemoval ==
    [][last'.op = "delete"
         => ((last'.kind = "true")
               <=> (\/ last'.name \in DOMAIN vector_stores
                    \/ Stem(last'.name) \in DOMAIN disk))]_vars

\* C8 (as claimed): a directory that exists but cannot be deserialized makes
\* load_vector_store answer differently from a name that was never stored,
\* and makes search raise instead of returning an empty list.
C8_BrokenIndexIsAnError ==
    \A n \in FileNames :
       (/\ n \notin DOMAIN vector_stores
        /\ Stem(n) \in DOMAIN disk
        /\ ~CanLoad(disk[Stem(n)]))
       => /\ load_vector_store(vector_stores, disk, n).ret
               # load_vector_store(EmptyCache, FreshDisk, n).ret
          /\ \A q \in Queries, k \in TopKs :
                search(vector_stores, disk, q, n, k).kind = "docstore_error"

\* What a caller can see of a document.
Observations(vs, d, file_name) ==
    [load |-> load_vector_store(vs, d, file_name).ret,
     search |-> SearchResults(vs, d, file_name),
     info |-> LET g == get_store_info(vs, d, file_name) IN <<g.none, g.info>>,
     list |-> list_vector_stores(d)]

AsAfterDelete(file_name) ==
    LET del == delete_vector_store(vector_stores, disk, file_name)
    IN Observations(del.vs, del.disk, file_name)

\* C9 (as claimed): once a document's directory has been removed, every
\* name of the document is observed as it would be after delete_vector_store.
C9_RmdirIsDelete ==
    [][last'.op = "rmdir"
         => \A n \in FileNames :
               Stem(n) = last'.name
                  => Observations(vector_stores', disk', n) = AsAfterDelete(n)]_vars

\* C9 (amended): the same for a name that has no entry in the cache when the
\* directory is removed; such a name is then not found.
C9_RmdirIsDeleteWhenNotCached ==
    [][last'.op = "rmdir"
         => \A n \in FileNames :
               (Stem(n) = last'.name /\ n \notin DOMAIN vector_stores)
                  => /\ Observations(vector_stores', disk', n) = AsAfterDelete(n)
                     /\ load_vector_store(vector_stores', disk', n).ret = None]_vars

\* C9 witness: a directory was removed while one name of the document was
\* cached and another was not.
C9_Witness ==
    /\ last.op = "rmdir"
    /\ \E n \in FileNames : Stem(n) = last.name /\ n \notin DOMAIN vector_stores
    /\ \E n \in FileNames : Stem(n) = last.name /\ n \in DOMAIN vector_stores

EmptyText == [id |-> 0, len |-> 0]

\* C10 (as claimed): building from an empty text succeeds, caches and
\* persists a record of zero chunks, and every search of it returns an
\* empty list without an error.
C10_EmptyTextBuilds ==
    \A n \in FileNames :
       LET r == create_vector_store_from_text(vector_stores, disk, EmptyText, n,
                                              NoMeta, "none")
       IN /\ r.kind = "ok"
          /\ n \in DOMAIN r.vs
          /\ Len(r.vs[n].docs) = 0 /\ Len(r.vs[n].index) = 0
          /\ Stem(n) \in DOMAIN r.disk
          /\ \A q \in Queries, k \in TopKs :
                LET s == search(r.vs, r.disk, q, n, k)
                IN s.kind = "ok" /\ s.ret = <<>>

\* C11 (as claimed): a create, load, search or delete called with an empty
\* file name, and a search called with a top_k that is not positive, ends
\* in an InvalidInput error and leaves the cache and every directory as
\* they were before the call.
C11_InvalidInputRejected ==
    [][(\/ /\ last'.op \in {"create", "load", "search", "delete"}
           /\ last'.name = EmptyName
        \/ \E q \in Queries, n \in InvalidNames, k \in NonPositiveTopKs :
              Search(q, n, k))
         => /\ last'.kind = "invalid_input"
            /\ vector_stores' = vector_stores
            /\ disk' = disk]_vars

\* The documents are numbered 0, 1, ... in order and name file_name as
\* their source.
OrdinalsInOrder(docs, file_name) ==
    \A i \in DOMAIN docs :
       /\ docs[i].metadata.chunk_index = i - 1
       /\ docs[i].metadata.source = file_name

\* C12 (as claimed): whatever mapping the caller passes as metadata, the
\* record of a successful build has one document per chunk, the stored
\* chunk_index values are 0 .. n-1 in order, and every source is file_name.
C12_ChunkOrdinals ==
    [][\A n \in FileNames, t \in Texts, m \in BuildMetas :
          (Create(n, t, m, "none") /\ last'.kind = "ok")
             => /\ Len(vector_stores'[n].docs) = Len(split_text(t))
                /\ OrdinalsInOrder(vector_stores'[n].docs, n)]_vars

\* C13 (as claimed): whatever create, load and delete calls have finished,
\* failed ones included, every cache entry has a directory under the stem
\* of its name that loads to the very record the cache holds.
C13_CacheIsPersisted ==
    \A n \in DOMAIN vector_stores :
       /\ Stem(n) \in DOMAIN disk
       /\ CanLoad(disk[Stem(n)])
       /\ load_local(disk[Stem(n)]) = vector_stores[n]

\* C14 (as claimed): a request whose body is larger than MAX_FILE_SIZE, once
\* the helper has raised its HTTPException(400), is answered with status 400,
\* no more than MAX_FILE_SIZE bytes were written, the file is gone from
\* UPLOAD_DIR and no vector store was built.
C14_OversizedUploadIs400 ==
    /\ request.written <= MAX_FILE_SIZE
    /\ (/\ request.pc = "responded"
        /\ request.body > MAX_FILE_SIZE
        /\ request.raised = 400)
       => /\ request.status = 400
          /\ request.filename \notin DOMAIN upload_dir
          /\ request.vector_db = "none"

====
